---- MODULE Spec2Model ----
(***************************************************************************)
(* A model of wave-js (src/src/wave.ts): the RIFF/WAVE chunk codecs and    *)
(* the Wave container.                                                     *)
(*                                                                         *)
(* An ArrayBuffer is a sequence of bytes (0..255); byte offset o is index  *)
(* o + 1.  A DataView or Uint8Array over a buffer is the pair (off, len)   *)
(* of its byteOffset and byteLength.  A method that writes into a buffer   *)
(* takes and returns a write result [ok, buf]: ok = FALSE stands for a     *)
(* thrown RangeError / TypeError (the exception leaves the call).          *)
(* Numbers are non-negative integers below 2^31; every u16/u32 is stored    *)
(* byte by byte, least or most significant byte first.                     *)
(***************************************************************************)
EXTENDS Integers, Sequences, FiniteSets, TLC

VARIABLES
    pc,           \* position of the codec scenario / chunk scenario
    wave,         \* Wave.chunks of the Wave being encoded
    buffer,       \* what encode() returned (and what decode() is given)
    tampered,     \* which damage was done to the buffer before decode ("none")
    decoded,      \* what Wave.decode(buffer) did
    reencoded,    \* what decode(buffer).encode() returned
    chunk,        \* chunk-level scenario: the chunk packed
    place,        \* chunk-level scenario: where the view lies in its buffer
    packed,       \* chunk-level scenario: result of chunk.pack(view)
    unpacked,     \* chunk-level scenario: result of Type.unpack(view, tag)
    chunks,       \* Wave object scenario: this.chunks (object references)
    cached_fmt,   \* Wave object scenario: this.cached_fmt
    cached_data,  \* Wave object scenario: this.cached_data
    lastOp,       \* Wave object scenario: the method that ran last
    ret           \* Wave object scenario: what that method returned

vars == <<pc, wave, buffer, tampered, decoded, reencoded, chunk, place, packed,
          unpacked, chunks, cached_fmt, cached_data, lastOp, ret>>

codecVars == <<wave, tampered, decoded, reencoded>>
chunkVars == <<chunk, place, packed, unpacked>>
waveVars  == <<chunks, cached_fmt, cached_data, lastOp, ret>>

-----------------------------------------------------------------------------
(* Bounds of the model *)

MaxChunks == 2      \* top-level chunks of a Wave in the codec scenario
MaxData == 2        \* bytes of a raw payload (data, unknown, extension bytes)
MaxLabel == 2       \* characters of a cue label
MaxItems == 2       \* items of an ADTL chunk in the chunk scenario
MaxHeld == 3        \* chunks a Wave object holds in the Wave object scenario

-----------------------------------------------------------------------------
(* ChunkTagsBE *)

RIFF == 1380533830
WAVE == 1463899717
FMT  == 1718449184
DATA == 1684108385
CUE  == 1668637984
SMPL == 1936552044
LIST == 1279873876
adtl == 1633973356
labl == 1818321516
INFO == 1229866575

-----------------------------------------------------------------------------
(* Bytes and integers *)

\* DataView.setUint16(_, v, true): v is reduced to 16 bits, low byte first.
U16LE(v) == << v % 256, (v \div 256) % 256 >>
\* DataView.setUint32(_, v, true)
U32LE(v) == << v % 256, (v \div 256) % 256, (v \div 65536) % 256, (v \div 16777216) % 256 >>
\* DataView.setUint32(_, v, false)
U32BE(v) == << (v \div 16777216) % 256, (v \div 65536) % 256, (v \div 256) % 256, v % 256 >>

\* The reads, at absolute byte offset p of buffer b.
GetU16LE(b, p) == b[p + 1] + 256 * b[p + 2]
GetU32LE(b, p) == b[p + 1] + 256 * b[p + 2] + 65536 * b[p + 3] + 16777216 * b[p + 4]
GetU32BE(b, p) == 16777216 * b[p + 1] + 65536 * b[p + 2] + 256 * b[p + 3] + b[p + 4]

Zeros(n) == [i \in 1..n |-> 0]

\* bytes [from, to) of b, as ArrayBuffer.slice and the typed-array views give them
Slice(b, from, to) == [i \in 1..(to - from) |-> b[from + i]]

WriteAt(b, p, bytes) ==
    [i \in 1..Len(b) |-> IF i > p /\ i <= p + Len(bytes) THEN bytes[i - p] ELSE b[i]]

Ok(b) == [ok |-> TRUE, buf |-> b]
Throw(b) == [ok |-> FALSE, buf |-> b]

\* new DataView(buffer, off, len) / new Uint8Array(buffer, off, len) is created
\* only inside the buffer; otherwise the constructor throws a RangeError.
ViewFits(b, off, len) == len >= 0 /\ off + len <= Len(b)

\* view.setUintN(idx, ..) on the DataView (off, len): RangeError past the view.
ViewSet(r, off, len, idx, bytes) ==
    IF ~r.ok THEN r
    ELSE IF idx + Len(bytes) > len THEN Throw(r.buf)
    ELSE Ok(WriteAt(r.buf, off + idx, bytes))

\* new Uint8Array(buffer, off, len).set(src, at)
U8Set(r, off, len, src, at) ==
    IF ~r.ok THEN r
    ELSE IF ~ViewFits(r.buf, off, len) THEN Throw(r.buf)
    ELSE IF at + Len(src) > len THEN Throw(r.buf)
    ELSE Ok(WriteAt(r.buf, off + at, src))

\* An optional Uint8Array (extraFormatBytes?, samplerData | undefined)
Undefined == [defined |-> FALSE, bytes |-> <<>>]
Bytes(bs) == [defined |-> TRUE, bytes |-> bs]

-----------------------------------------------------------------------------
(* Text: a string is a sequence of code points *)

\* String.length counts UTF-16 code units.
RECURSIVE StringLength(_)
StringLength(s) ==
    IF s = <<>> THEN 0
    ELSE (IF Head(s) > 65535 THEN 2 ELSE 1) + StringLength(Tail(s))

\* The UTF-8 bytes of one code point (TextEncoder).  A string is the sequence
\* of its code points; a code point in 55296..57343 is an unpaired surrogate
\* code unit, which TextEncoder writes as U+FFFD (EF BF BD).
Utf8Char(cp) ==
    IF cp < 128 THEN << cp >>
    ELSE IF cp < 2048 THEN << 192 + (cp \div 64), 128 + (cp % 64) >>
    ELSE IF cp >= 55296 /\ cp <= 57343 THEN << 239, 191, 189 >>
    ELSE IF cp < 65536 THEN
        << 224 + (cp \div 4096), 128 + ((cp \div 64) % 64), 128 + (cp % 64) >>
    ELSE << 240 + (cp \div 262144), 128 + ((cp \div 4096) % 64),
            128 + ((cp \div 64) % 64), 128 + (cp % 64) >>

\* textEncoder.encodeInto(s, dest) with dest of `room` bytes: the bytes written,
\* whole characters only, stopping at the first character that does not fit.
RECURSIVE EncodeInto(_, _)
EncodeInto(s, room) ==
    IF s = <<>> THEN <<>>
    ELSE LET c == Utf8Char(Head(s)) IN
         IF Len(c) > room THEN <<>>
         ELSE c \o EncodeInto(Tail(s), room - Len(c))

\* textDecoder.decode(bytes): the WHATWG UTF-8 decoder, not fatal; a malformed
\* or cut sequence decodes to U+FFFD (65533).
RECURSIVE Utf8Dec(_, _, _, _, _, _, _)
Utf8Dec(bs, i, cp, seen, needed, lower, upper) ==
    IF i > Len(bs) THEN (IF needed # 0 THEN << 65533 >> ELSE <<>>)
    ELSE LET b == bs[i] IN
      IF needed = 0 THEN
        IF b <= 127 THEN << b >> \o Utf8Dec(bs, i + 1, 0, 0, 0, 128, 191)
        ELSE IF b >= 194 /\ b <= 223 THEN Utf8Dec(bs, i + 1, b - 192, 0, 1, 128, 191)
        ELSE IF b >= 224 /\ b <= 239 THEN
            Utf8Dec(bs, i + 1, b - 224, 0, 2,
                    IF b = 224 THEN 160 ELSE 128, IF b = 237 THEN 159 ELSE 191)
        ELSE IF b >= 240 /\ b <= 244 THEN
            Utf8Dec(bs, i + 1, b - 240, 0, 3,
                    IF b = 240 THEN 144 ELSE 128, IF b = 244 THEN 143 ELSE 191)
        ELSE << 65533 >> \o Utf8Dec(bs, i + 1, 0, 0, 0, 128, 191)
      ELSE IF b < lower \/ b > upper THEN
        << 65533 >> \o Utf8Dec(bs, i, 0, 0, 0, 128, 191)
      ELSE IF seen + 1 = needed THEN
        << cp * 64 + (b - 128) >> \o Utf8Dec(bs, i + 1, 0, 0, 0, 128, 191)
      ELSE Utf8Dec(bs, i + 1, cp * 64 + (b - 128), seen + 1, needed, 128, 191)

TextDecode(bs) ==
    LET body == IF Len(bs) >= 3 /\ bs[1] = 239 /\ bs[2] = 187 /\ bs[3] = 191
                THEN SubSeq(bs, 4, Len(bs)) ELSE bs
    IN Utf8Dec(body, 1, 0, 0, 0, 128, 191)

\* Uint8Array.indexOf(0): the 0-based index of the first zero byte, or -1
IndexOfZero(bs) ==
    IF \E i \in 1..Len(bs) : bs[i] = 0
    THEN (CHOOSE i \in 1..Len(bs) : bs[i] = 0 /\ \A j \in 1..(i - 1) : bs[j] # 0) - 1
    ELSE -1

-----------------------------------------------------------------------------
(* The chunk classes: constructors *)

UnknownChunk(tag, data) == [kind |-> "UnknownChunk", tag |-> tag, data |-> data]

FormatChunk(compressionCode, channelCount, sampleRate, avgBytesPerSecond, blockAlign, sigBitsPerSample, extraFormatBytes) ==
    [kind |-> "FormatChunk", tag |-> FMT,
     compressionCode |-> compressionCode, channelCount |-> channelCount,
     sampleRate |-> sampleRate, avgBytesPerSecond |-> avgBytesPerSecond,
     blockAlign |-> blockAlign, sigBitsPerSample |-> sigBitsPerSample,
     extraFormatBytes |-> extraFormatBytes]

Cue(id, position, chunkId, chunkStart, blockStart, sampleOffset) ==
    [id |-> id, position |-> position, chunkId |-> chunkId,
     chunkStart |-> chunkStart, blockStart |-> blockStart,
     sampleOffset |-> sampleOffset]

CueChunk(cues) == [kind |-> "CueChunk", tag |-> CUE, cues |-> cues]

SampleLoop(id, type, start, end, fraction, playCount) ==
    [id |-> id, type |-> type, start |-> start, end |-> end,
     fraction |-> fraction, playCount |-> playCount]

SampleChunk(samplePeriod, samplerData, sampleLoops, manufacturer, product, midiUnityNote, midiPitchFraction, smpteFormat, smpteOffset) ==
    [kind |-> "SampleChunk", tag |-> SMPL,
     samplePeriod |-> samplePeriod, samplerData |-> samplerData,
     sampleLoops |-> sampleLoops, manufacturer |-> manufacturer,
     product |-> product, midiUnityNote |-> midiUnityNote,
     midiPitchFraction |-> midiPitchFraction, smpteFormat |-> smpteFormat,
     smpteOffset |-> smpteOffset]

ListChunk_ADTL_LABL(cueId, cueLabel) ==
    [kind |-> "ListChunk_ADTL_LABL", tag |-> labl, cueId |-> cueId, cueLabel |-> cueLabel]

ListChunk_ADTL(items) == [kind |-> "ListChunk_ADTL", tag |-> adtl, chunks |-> items]

ListChunk(body) == [kind |-> "ListChunk", tag |-> LIST, body |-> body]

DataChunk(data) == [kind |-> "DataChunk", tag |-> DATA, data |-> data]

-----------------------------------------------------------------------------
(* length() *)

UnknownLength(c) == Len(c.data)

\* this.extraFormatBytes!.length is a TypeError when the bytes are undefined
FormatLengthThrows(c) == c.compressionCode > 1 /\ ~c.extraFormatBytes.defined

\* FormatLength with the boundary of the compression code moved by one
FormatLength_Mutant(c) ==
    IF c.compressionCode < 1 THEN 16
    ELSE 18 + Len(c.extraFormatBytes.bytes)

FormatLength(c) ==
    IF c.compressionCode <= 1 THEN 16
    ELSE 18 + Len(c.extraFormatBytes.bytes)

CueLength(c) == 4 + Len(c.cues) * 24

SampleLength(c) ==
    36 + Len(c.sampleLoops) * 24
       + (IF c.samplerData.defined THEN Len(c.samplerData.bytes) ELSE 0)

LablLength(c) ==
    LET length == 4 + StringLength(c.cueLabel) + 1
    IN IF length % 2 = 1 THEN length + 1 ELSE length

DataLength(c) == Len(c.data)

RECURSIVE ChunkLength(_)
RECURSIVE AdtlLengthFrom(_, _)
\* this.chunks.reduce((a, b) => a + 8 + b.length(), 0), from item i on
AdtlLengthFrom(items, i) ==
    IF i > Len(items) THEN 0
    ELSE 8 + ChunkLength(items[i]) + AdtlLengthFrom(items, i + 1)

AdtlLength(c) == AdtlLengthFrom(c.chunks, 1)

ListLength(c) == 4 + ChunkLength(c.body)

ChunkLength(c) ==
    CASE c.kind = "UnknownChunk" -> UnknownLength(c)
      [] c.kind = "FormatChunk" -> FormatLength(c)
      [] c.kind = "CueChunk" -> CueLength(c)
      [] c.kind = "SampleChunk" -> SampleLength(c)
      [] c.kind = "ListChunk_ADTL_LABL" -> LablLength(c)
      [] c.kind = "ListChunk_ADTL" -> AdtlLength(c)
      [] c.kind = "ListChunk" -> ListLength(c)
      [] c.kind = "DataChunk" -> DataLength(c)

\* Whether c.length() throws: only FormatChunk.length can, and the containers
\* that call it.
RECURSIVE LengthThrows(_)
LengthThrows(c) ==
    CASE c.kind = "FormatChunk" -> FormatLengthThrows(c)
      [] c.kind = "ListChunk_ADTL" -> \E i \in 1..Len(c.chunks) : LengthThrows(c.chunks[i])
      [] c.kind = "ListChunk" -> LengthThrows(c.body)
      [] OTHER -> FALSE

-----------------------------------------------------------------------------
(* pack(into): r is the write result so far, (off, len) the DataView `into` *)

UnknownPack(c, r, off, len) == U8Set(r, off, len, c.data, 0)

FormatPack(c, r, off, len) ==
    LET r1 == ViewSet(r, off, len, 0, U16LE(c.compressionCode))
        r2 == ViewSet(r1, off, len, 2, U16LE(c.channelCount))
        r3 == ViewSet(r2, off, len, 4, U32LE(c.sampleRate))
        r4 == ViewSet(r3, off, len, 8, U32LE(c.avgBytesPerSecond))
        r5 == ViewSet(r4, off, len, 12, U16LE(c.blockAlign))
        r6 == ViewSet(r5, off, len, 14, U16LE(c.sigBitsPerSample))
    IN IF c.compressionCode > 1
       THEN LET n == IF c.extraFormatBytes.defined
                     THEN Len(c.extraFormatBytes.bytes) ELSE 0
                r7 == ViewSet(r6, off, len, 16, U16LE(n))
            IN IF c.extraFormatBytes.defined
               THEN U8Set(r7, off, len, c.extraFormatBytes.bytes, 18)
               ELSE r7
       ELSE r6

\* Cue.pack(into, idx) and SampleLoop.pack(into, idx): six u32 fields
CuePack(q, r, off, len, idx) ==
    LET r1 == ViewSet(r, off, len, idx + 0, U32LE(q.id))
        r2 == ViewSet(r1, off, len, idx + 4, U32LE(q.position))
        r3 == ViewSet(r2, off, len, idx + 8, U32LE(q.chunkId))
        r4 == ViewSet(r3, off, len, idx + 12, U32LE(q.chunkStart))
        r5 == ViewSet(r4, off, len, idx + 16, U32LE(q.blockStart))
    IN ViewSet(r5, off, len, idx + 20, U32LE(q.sampleOffset))

RECURSIVE CuesPackFrom(_, _, _, _, _)
CuesPackFrom(cues, i, r, off, len) ==
    IF i > Len(cues) THEN r
    ELSE CuesPackFrom(cues, i + 1, CuePack(cues[i], r, off, len, 4 + (i - 1) * 24), off, len)

CueChunkPack(c, r, off, len) ==
    CuesPackFrom(c.cues, 1, ViewSet(r, off, len, 0, U32LE(Len(c.cues))), off, len)

SampleLoopPack(q, r, off, len, idx) ==
    LET r1 == ViewSet(r, off, len, idx + 0, U32LE(q.id))
        r2 == ViewSet(r1, off, len, idx + 4, U32LE(q.type))
        r3 == ViewSet(r2, off, len, idx + 8, U32LE(q.start))
        r4 == ViewSet(r3, off, len, idx + 12, U32LE(q.end))
        r5 == ViewSet(r4, off, len, idx + 16, U32LE(q.fraction))
    IN ViewSet(r5, off, len, idx + 20, U32LE(q.playCount))

RECURSIVE LoopsPackFrom(_, _, _, _, _)
LoopsPackFrom(loops, i, r, off, len) ==
    IF i > Len(loops) THEN r
    ELSE LoopsPackFrom(loops, i + 1,
                       SampleLoopPack(loops[i], r, off, len, 36 + (i - 1) * 24), off, len)

SamplePack(c, r, off, len) ==
    LET n  == IF c.samplerData.defined THEN Len(c.samplerData.bytes) ELSE 0
        r1 == ViewSet(r, off, len, 0, U32LE(c.manufacturer))
        r2 == ViewSet(r1, off, len, 4, U32LE(c.product))
        r3 == ViewSet(r2, off, len, 8, U32LE(c.samplePeriod))
        r4 == ViewSet(r3, off, len, 12, U32LE(c.midiUnityNote))
        r5 == ViewSet(r4, off, len, 16, U32LE(c.midiPitchFraction))
        r6 == ViewSet(r5, off, len, 20, U32LE(c.smpteFormat))
        r7 == ViewSet(r6, off, len, 24, U32LE(c.smpteOffset))
        r8 == ViewSet(r7, off, len, 28, U32LE(Len(c.sampleLoops)))
        r9 == ViewSet(r8, off, len, 32, U32LE(n))
        rl == LoopsPackFrom(c.sampleLoops, 1, r9, off, len)
    IN IF c.samplerData.defined
       THEN U8Set(rl, off, len, c.samplerData.bytes, 36 + Len(c.sampleLoops) * 24)
       ELSE rl

\* The label is encoded into new Uint8Array(into.buffer, into.byteOffset + 4,
\* into.byteLength): a view that starts 4 bytes into `into` and is as long as
\* `into`, so it ends 4 bytes after it.
LablPack(c, r, off, len) ==
    LET r1 == ViewSet(r, off, len, 0, U32LE(c.cueId))
    IN IF ~r1.ok THEN r1
       ELSE IF ~ViewFits(r1.buf, off + 4, len) THEN Throw(r1.buf)
       ELSE Ok(WriteAt(r1.buf, off + 4, EncodeInto(c.cueLabel, len)))

DataPack(c, r, off, len) == U8Set(r, off, len, c.data, 0)

RECURSIVE ChunkPack(_, _, _, _)
RECURSIVE AdtlPackFrom(_, _, _, _, _, _)
\* The loop of ListChunk_ADTL.pack from item i on, idx the running offset.
AdtlPackFrom(items, i, idx, r, off, len) ==
    IF i > Len(items) \/ ~r.ok THEN r
    ELSE IF LengthThrows(items[i]) THEN Throw(r.buf)
    ELSE LET chunkSize == ChunkLength(items[i])
             r1 == ViewSet(r, off, len, idx, U32BE(items[i].tag))
             r2 == ViewSet(r1, off, len, idx + 4, U32LE(chunkSize))
         IN IF ~r2.ok THEN r2
            ELSE IF ~ViewFits(r2.buf, off + idx + 8, chunkSize) THEN Throw(r2.buf)
            ELSE AdtlPackFrom(items, i + 1, idx + 8 + chunkSize,
                              ChunkPack(items[i], r2, off + idx + 8, chunkSize),
                              off, len)

AdtlPack(c, r, off, len) == AdtlPackFrom(c.chunks, 1, 0, r, off, len)

ListPack(c, r, off, len) ==
    LET r1 == ViewSet(r, off, len, 0, U32BE(c.body.tag))
    IN IF ~r1.ok THEN r1
       ELSE IF ~ViewFits(r1.buf, off + 4, len - 4) THEN Throw(r1.buf)
       ELSE ChunkPack(c.body, r1, off + 4, len - 4)

ChunkPack(c, r, off, len) ==
    IF ~r.ok THEN r
    ELSE CASE c.kind = "UnknownChunk" -> UnknownPack(c, r, off, len)
           [] c.kind = "FormatChunk" -> FormatPack(c, r, off, len)
           [] c.kind = "CueChunk" -> CueChunkPack(c, r, off, len)
           [] c.kind = "SampleChunk" -> SamplePack(c, r, off, len)
           [] c.kind = "ListChunk_ADTL_LABL" -> LablPack(c, r, off, len)
           [] c.kind = "ListChunk_ADTL" -> AdtlPack(c, r, off, len)
           [] c.kind = "ListChunk" -> ListPack(c, r, off, len)
           [] c.kind = "DataChunk" -> DataPack(c, r, off, len)

-----------------------------------------------------------------------------
(* unpack(from, tag): b is from.buffer, (off, len) the DataView `from`.     *)
(* The result is [ok, chunk]; ok = FALSE stands for a thrown RangeError.    *)

NoChunk == [kind |-> "none"]
Unpacked(c) == [ok |-> TRUE, chunk |-> c]
UnpackThrows == [ok |-> FALSE, chunk |-> NoChunk]

UnknownUnpack(b, off, len, tag) == Unpacked(UnknownChunk(tag, Slice(b, off, off + len)))

FormatUnpack(b, off, len, tag) ==
    IF len < 2 THEN UnpackThrows
    ELSE LET compressionCode == GetU16LE(b, off + 0) IN
      IF compressionCode > 1 /\ len < 18 THEN UnpackThrows
      ELSE LET extraFormatBytesLength ==
                   IF compressionCode > 1 THEN GetU16LE(b, off + 16) ELSE 0
           IN IF compressionCode > 1 /\ ~ViewFits(b, off + 18, extraFormatBytesLength)
              THEN UnpackThrows
              ELSE IF len < 16 THEN UnpackThrows
              ELSE Unpacked(FormatChunk(
                       compressionCode,
                       GetU16LE(b, off + 2),
                       GetU32LE(b, off + 4),
                       GetU32LE(b, off + 8),
                       GetU16LE(b, off + 12),
                       GetU16LE(b, off + 14),
                       IF compressionCode > 1
                       THEN Bytes(Slice(b, off + 18, off + 18 + extraFormatBytesLength))
                       ELSE Undefined))

CueUnpack(b, off, idx) ==
    Cue(GetU32LE(b, off + idx + 0), GetU32LE(b, off + idx + 4),
        GetU32LE(b, off + idx + 8), GetU32LE(b, off + idx + 12),
        GetU32LE(b, off + idx + 16), GetU32LE(b, off + idx + 20))

\* The loop reads `count` records of 24 bytes from offset 4; a read past the
\* view throws (4 + 24 * count > len, written without the product).
CueChunkUnpack(b, off, len, tag) ==
    IF len < 4 THEN UnpackThrows
    ELSE LET count == GetU32LE(b, off + 0) IN
      IF count > (len - 4) \div 24 THEN UnpackThrows
      ELSE Unpacked(CueChunk([i \in 1..count |-> CueUnpack(b, off, 4 + (i - 1) * 24)]))

SampleLoopUnpack(b, off, idx) ==
    SampleLoop(GetU32LE(b, off + idx + 0), GetU32LE(b, off + idx + 4),
               GetU32LE(b, off + idx + 8), GetU32LE(b, off + idx + 12),
               GetU32LE(b, off + idx + 16), GetU32LE(b, off + idx + 20))

SampleUnpack(b, off, len, tag) ==
    IF len < 36 THEN UnpackThrows
    ELSE LET sampleLoopCount == GetU32LE(b, off + 28)
             samplerDataSize == GetU32LE(b, off + 32)
         IN IF sampleLoopCount > (len - 36) \div 24 THEN UnpackThrows
            ELSE IF samplerDataSize # 0
                    /\ ~ViewFits(b, off + 36 + sampleLoopCount * 24, samplerDataSize)
            THEN UnpackThrows
            ELSE Unpacked(SampleChunk(
                     GetU32LE(b, off + 8),
                     IF samplerDataSize # 0
                     THEN Bytes(Slice(b, off + 36 + sampleLoopCount * 24,
                                      off + 36 + sampleLoopCount * 24 + samplerDataSize))
                     ELSE Undefined,
                     [i \in 1..sampleLoopCount |-> SampleLoopUnpack(b, off, 36 + (i - 1) * 24)],
                     GetU32LE(b, off + 0),
                     GetU32LE(b, off + 4),
                     GetU32LE(b, off + 12),
                     GetU32LE(b, off + 16),
                     GetU32LE(b, off + 20),
                     GetU32LE(b, off + 24)))

LablUnpack(b, off, len, tag) ==
    IF len < 4 THEN UnpackThrows
    ELSE LET cueId == GetU32LE(b, off + 0)
             cueLabelBytes == Slice(b, off + 4, off + len)
             byteLength == IndexOfZero(cueLabelBytes)
         IN Unpacked(ListChunk_ADTL_LABL(
                cueId,
                TextDecode(IF byteLength # -1
                           THEN SubSeq(cueLabelBytes, 1, byteLength)
                           ELSE cueLabelBytes)))

DataUnpack(b, off, len, tag) == Unpacked(DataChunk(Slice(b, off, off + len)))

\* ListChunk_ADTL.chunkRegistry[chunkTag] ?? UnknownChunk
AdtlItemUnpack(b, off, len, tag) ==
    IF tag = labl THEN LablUnpack(b, off, len, tag)
    ELSE UnknownUnpack(b, off, len, tag)

\* After an item: idx += chunkSize; if (idx & 1) idx++
AdtlUnpackAdvance(idx, chunkSize) ==
    IF (idx + chunkSize) % 2 = 1 THEN idx + chunkSize + 1 ELSE idx + chunkSize

\* The loop of ListChunk_ADTL.unpack from running offset idx on: [ok, items]
RECURSIVE AdtlUnpackFrom(_, _, _, _)
AdtlUnpackFrom(b, off, len, idx) ==
    IF ~(idx < len) THEN [ok |-> TRUE, items |-> <<>>]
    ELSE IF idx + 8 > len THEN [ok |-> FALSE, items |-> <<>>]
    ELSE LET chunkTag == GetU32BE(b, off + idx)
             chunkSize == GetU32LE(b, off + idx + 4)
         IN IF ~ViewFits(b, off + idx + 8, chunkSize) THEN [ok |-> FALSE, items |-> <<>>]
            ELSE LET item == AdtlItemUnpack(b, off + idx + 8, chunkSize, chunkTag)
                     rest == AdtlUnpackFrom(b, off, len, AdtlUnpackAdvance(idx + 8, chunkSize))
                 IN IF item.ok /\ rest.ok
                    THEN [ok |-> TRUE, items |-> <<item.chunk>> \o rest.items]
                    ELSE [ok |-> FALSE, items |-> <<>>]

AdtlUnpack(b, off, len, tag) ==
    LET r == AdtlUnpackFrom(b, off, len, 0)
    IN IF r.ok THEN Unpacked(ListChunk_ADTL(r.items)) ELSE UnpackThrows

\* ListChunk.chunkRegistry[bodyTag] ?? UnknownChunk
ListBodyUnpack(b, off, len, tag) ==
    IF tag = adtl THEN AdtlUnpack(b, off, len, tag)
    ELSE UnknownUnpack(b, off, len, tag)

ListUnpack(b, off, len, tag) ==
    IF len < 4 THEN UnpackThrows
    ELSE LET bodyTag == GetU32BE(b, off + 0)
             body == ListBodyUnpack(b, off + 4, len - 4, bodyTag)
         IN IF body.ok THEN Unpacked(ListChunk(body.chunk)) ELSE UnpackThrows

\* Wave.chunkRegistry[chunkTag] ?? UnknownChunk
WaveChunkUnpack(b, off, len, tag) ==
    CASE tag = FMT -> FormatUnpack(b, off, len, tag)
      [] tag = DATA -> DataUnpack(b, off, len, tag)
      [] tag = CUE -> CueChunkUnpack(b, off, len, tag)
      [] tag = SMPL -> SampleUnpack(b, off, len, tag)
      [] tag = LIST -> ListUnpack(b, off, len, tag)
      [] OTHER -> UnknownUnpack(b, off, len, tag)

-----------------------------------------------------------------------------
(* Wave.encode and Wave.decode *)

\* if (x & 1) x++
ShortAlign(x) == IF x % 2 = 1 THEN x + 1 ELSE x

\* The first loop of encode: fileLength after the chunks from i on
RECURSIVE EncodeFileLength(_, _, _)
EncodeFileLength(chs, i, fileLength) ==
    IF i > Len(chs) THEN fileLength
    ELSE EncodeFileLength(chs, i + 1, ShortAlign(fileLength + 8 + ChunkLength(chs[i])))

\* The second loop of encode, from chunk i on, idx the cursor
RECURSIVE EncodeChunksFrom(_, _, _, _)
EncodeChunksFrom(chs, i, idx, r) ==
    IF i > Len(chs) \/ ~r.ok THEN r
    ELSE LET chunkLength == ChunkLength(chs[i])
             fileLen == Len(r.buf)
             r1 == ViewSet(r, 0, fileLen, idx + 0, U32BE(chs[i].tag))
             r2 == ViewSet(r1, 0, fileLen, idx + 4, U32LE(chunkLength))
         IN IF ~r2.ok THEN r2
            ELSE IF ~ViewFits(r2.buf, idx + 8, chunkLength) THEN Throw(r2.buf)
            ELSE EncodeChunksFrom(chs, i + 1, ShortAlign(idx + 8 + chunkLength),
                                  ChunkPack(chs[i], r2, idx + 8, chunkLength))

\* encode(): [ok, buf]; ok = FALSE when a length() or pack() call throws
WaveEncode(chs) ==
    IF \E i \in 1..Len(chs) : LengthThrows(chs[i]) THEN Throw(<<>>)
    ELSE LET fileLength == EncodeFileLength(chs, 1, 12)
             r1 == ViewSet(Ok(Zeros(fileLength)), 0, fileLength, 0, U32BE(RIFF))
             r2 == ViewSet(r1, 0, fileLength, 4, U32LE(fileLength - 8))
             r3 == ViewSet(r2, 0, fileLength, 8, U32BE(WAVE))
         IN EncodeChunksFrom(chs, 1, 12, r3)

\* The bound of decode's chunk loop: while (idx < fileLength)
DecodeLoopRuns(idx, fileLength) == idx < fileLength

\* DecodeLengthInvalid without the 8 bytes of the RIFF header
DecodeLengthInvalid_Mutant(fileLength, byteLength) == fileLength > byteLength

\* if (fileLength + 8 > buffer.byteLength) throw
DecodeLengthInvalid(fileLength, byteLength) == fileLength + 8 > byteLength

\* The chunk loop of decode from cursor idx on:
\* [ok, chunks, unpacked (chunks unpacked before the loop ended), idx (last cursor)]
RECURSIVE DecodeChunksFrom(_, _, _)
DecodeChunksFrom(b, fileLength, idx) ==
    IF ~DecodeLoopRuns(idx, fileLength)
    THEN [ok |-> TRUE, chunks |-> <<>>, unpacked |-> 0, idx |-> idx]
    ELSE IF idx + 8 > Len(b)
    THEN [ok |-> FALSE, chunks |-> <<>>, unpacked |-> 0, idx |-> idx]
    ELSE LET chunkTag == GetU32BE(b, idx + 0)
             chunkLength == GetU32LE(b, idx + 4)
         IN IF ~ViewFits(b, idx + 8, chunkLength)
            THEN [ok |-> FALSE, chunks |-> <<>>, unpacked |-> 0, idx |-> idx + 8]
            ELSE LET c == WaveChunkUnpack(b, idx + 8, chunkLength, chunkTag) IN
              IF ~c.ok
              THEN [ok |-> FALSE, chunks |-> <<>>, unpacked |-> 0,
                    idx |-> idx + 8 + chunkLength]
              ELSE LET rest == DecodeChunksFrom(b, fileLength,
                                                ShortAlign(idx + 8 + chunkLength))
                   IN [ok |-> rest.ok,
                       chunks |-> IF rest.ok THEN <<c.chunk>> \o rest.chunks ELSE <<>>,
                       unpacked |-> 1 + rest.unpacked,
                       idx |-> rest.idx]

\* Wave.decode(buffer): [ok, error, chunks, unpacked, idx].  error names the
\* throw: "RIFF", "WAVE", "length" (the three checks), "RangeError" (a read or
\* a view outside the buffer); chunks is the new Wave's chunk list.
DecodeFails(error, n, idx) ==
    [ok |-> FALSE, error |-> error, chunks |-> <<>>, unpacked |-> n, idx |-> idx]

WaveDecode(b) ==
    IF Len(b) < 4 THEN DecodeFails("RangeError", 0, 0)
    ELSE IF GetU32BE(b, 0) # RIFF THEN DecodeFails("RIFF", 0, 0)
    ELSE IF Len(b) < 12 THEN DecodeFails("RangeError", 0, 0)
    ELSE IF GetU32BE(b, 8) # WAVE THEN DecodeFails("WAVE", 0, 0)
    ELSE LET fileLength == GetU32LE(b, 4) IN
      IF DecodeLengthInvalid(fileLength, Len(b)) THEN DecodeFails("length", 0, 0)
      ELSE LET r == DecodeChunksFrom(b, fileLength, 12) IN
        IF r.ok
        THEN [ok |-> TRUE, error |-> "none", chunks |-> r.chunks,
              unpacked |-> r.unpacked, idx |-> r.idx]
        ELSE DecodeFails("RangeError", r.unpacked, r.idx)

-----------------------------------------------------------------------------
(* Wave: the chunk list and its cache.  A chunk object is [id, chunk]: id is *)
(* the object's identity, two objects may hold equal chunks.                 *)

Obj(id, c) == [id |-> id, chunk |-> c]
\* undefined, where a chunk object is expected
NoRef == Obj(0, NoChunk)

\* getChunk(tag): the first object of this.chunks whose tag is `tag`
GetChunk(chs, tag) ==
    IF \E i \in 1..Len(chs) : chs[i].chunk.tag = tag
    THEN chs[CHOOSE i \in 1..Len(chs) :
                /\ chs[i].chunk.tag = tag
                /\ \A j \in 1..(i - 1) : chs[j].chunk.tag # tag]
    ELSE NoRef

\* removeChunk(tag) returns what the same loop finds; this.chunks is not changed
RemoveChunkResult(chs, tag) == GetChunk(chs, tag)

\* The chunks the objects of this.chunks hold, in order
Contents(chs) == [i \in 1..Len(chs) |-> chs[i].chunk]

\* this.chunks of new Wave(cs): one object per chunk, in order
Objects(cs) == [i \in 1..Len(cs) |-> Obj(i, cs[i])]

-----------------------------------------------------------------------------
(* Inputs *)

SeqsUpTo(S, n) == UNION {[1..k -> S] : k \in 0..n}

\* "JUNK" and "note": tags in no registry
JUNK == GetU32BE(<<74, 85, 78, 75>>, 0)
NOTE == GetU32BE(<<110, 111, 116, 101>>, 0)

\* The payload of k bytes 17, 34, ...
Ramp(k) == [i \in 1..k |-> 17 * i]

PcmFormat == FormatChunk(1, 2, 44100, 176400, 4, 16, Undefined)
OneCue == Cue(1, 2, DATA, 3, 4, 5)
OneLoop == SampleLoop(1, 2, 3, 4, 5, 6)

\* The ADTL bodies of the codec scenario: no item, a label, an unknown item of
\* odd length, the two orders of both, and two unknown items
CodecAdtls ==
    LET l == ListChunk_ADTL_LABL(1, <<65>>)
        u == UnknownChunk(NOTE, Ramp(1))
    IN {ListChunk_ADTL(<<>>), ListChunk_ADTL(<<l>>), ListChunk_ADTL(<<u>>),
        ListChunk_ADTL(<<l, u>>), ListChunk_ADTL(<<u, l>>), ListChunk_ADTL(<<u, u>>)}

\* The top-level chunks of the codec scenario
CodecChunks ==
    {UnknownChunk(JUNK, Ramp(k)) : k \in 0..MaxData}
    \cup {DataChunk(Ramp(k)) : k \in 0..MaxData}
    \cup {PcmFormat, FormatChunk(2, 2, 8000, 16000, 2, 8, Bytes(Ramp(1)))}
    \cup {CueChunk(<<OneCue>>)}
    \cup {SampleChunk(7, Bytes(Ramp(1)), <<OneLoop>>, 1, 2, 60, 0, 0, 0)}
    \cup {ListChunk(UnknownChunk(INFO, Ramp(1)))}
    \cup {ListChunk(a) : a \in CodecAdtls}

Waves == SeqsUpTo(CodecChunks, MaxChunks)

\* The chunk scenario
Payloads == SeqsUpTo({171, 205}, MaxData)
Labels == SeqsUpTo({65, 233, 55296, 128512}, MaxLabel)

FormatInputs ==
    {FormatChunk(cc, f[1], f[2], f[3], f[4], f[5], x) :
        cc \in 0..3,
        f \in {<<2, 44100, 176400, 4, 16>>, <<1, 8000, 8000, 1, 8>>},
        x \in {Undefined} \cup {Bytes(p) : p \in Payloads}}

LablInputs == {ListChunk_ADTL_LABL(id, l) : id \in {1, 70000}, l \in Labels}

AdtlItems ==
    {ListChunk_ADTL_LABL(1, <<65>>), ListChunk_ADTL_LABL(2, <<65, 66>>),
     UnknownChunk(NOTE, Ramp(1)), UnknownChunk(NOTE, Ramp(2))}

AdtlInputs == {ListChunk_ADTL(items) : items \in SeqsUpTo(AdtlItems, MaxItems)}

ChunkInputs == FormatInputs \cup LablInputs \cup AdtlInputs \cup CodecChunks

Places == {[lead |-> l, slack |-> t] : l \in {0, 4}, t \in {0, 4}}

\* The Wave object scenario
HeldChunks == {PcmFormat, DataChunk(Ramp(1)), UnknownChunk(JUNK, Ramp(1))}

-----------------------------------------------------------------------------
(* The codec scenario: new Wave(chunks).encode(), Wave.decode(buffer) and    *)
(* encode() of the decoded Wave.  Between encode and decode the buffer may   *)
(* be damaged, so that decode also meets buffers encode did not write.       *)
(* chunks, cached_fmt and cached_data are those of the Wave at hand: the one *)
(* constructed, then the one decode returned.                                *)

NoBuffer == Throw(<<>>)
NotDecoded == [ok |-> FALSE, error |-> "not run", chunks |-> <<>>, unpacked |-> 0, idx |-> 0]

Damages == {"RIFF", "WAVE", "longer", "cut", "stub", "shorter"}

Damage(kind, b) ==
    CASE kind = "RIFF" -> WriteAt(b, 3, <<88>>)                  \* "RIFX"
      [] kind = "WAVE" -> WriteAt(b, 8, <<119>>)                 \* "wAVE"
      [] kind = "longer" -> WriteAt(b, 4, U32LE(GetU32LE(b, 4) + 1))
      [] kind = "cut" -> SubSeq(b, 1, Len(b) - 1)
      [] kind = "stub" -> SubSeq(b, 1, 8)
      [] kind = "shorter" -> WriteAt(b, 4, U32LE(GetU32LE(b, 4) - 4))

IdleChunk == /\ chunk = NoChunk /\ place = [lead |-> 0, slack |-> 0]
             /\ packed = NoBuffer /\ unpacked = UnpackThrows
IdleWave == /\ chunks = <<>> /\ cached_fmt = NoRef /\ cached_data = NoRef
            /\ lastOp = "none" /\ ret = NoRef
IdleCodec == /\ wave = <<>> /\ tampered = "none" /\ decoded = NotDecoded
             /\ reencoded = NoBuffer

\* new Wave(wave): the constructor keeps the chunks and ends with
\* this.updateCache()
Init ==
    /\ pc = "constructed"
    /\ wave \in Waves
    /\ buffer = NoBuffer
    /\ tampered = "none"
    /\ decoded = NotDecoded
    /\ reencoded = NoBuffer
    /\ IdleChunk
    /\ chunks = Objects(wave)
    /\ cached_fmt = GetChunk(chunks, FMT)
    /\ cached_data = GetChunk(chunks, DATA)
    /\ lastOp = "constructor"
    /\ ret = NoRef

Encode ==
    /\ pc = "constructed"
    /\ buffer' = WaveEncode(Contents(chunks))
    /\ pc' = "encoded"
    /\ lastOp' = "encode"
    /\ UNCHANGED <<wave, tampered, decoded, reencoded, chunkVars,
                   chunks, cached_fmt, cached_data, ret>>

Tamper ==
    /\ pc = "encoded" /\ buffer.ok /\ tampered = "none"
    /\ \E kind \in Damages :
         /\ tampered' = kind
         /\ buffer' = Ok(Damage(kind, buffer.buf))
    /\ UNCHANGED <<pc, wave, decoded, reencoded, chunkVars, waveVars>>

\* Wave.decode(buffer): it throws, or returns new Wave(chunks), whose
\* constructor ends with this.updateCache()
Decode ==
    /\ pc = "encoded" /\ buffer.ok
    /\ decoded' = WaveDecode(buffer.buf)
    /\ pc' = "decoded"
    /\ IF decoded'.ok
       THEN /\ chunks' = Objects(decoded'.chunks)
            /\ cached_fmt' = GetChunk(chunks', FMT)
            /\ cached_data' = GetChunk(chunks', DATA)
            /\ lastOp' = "constructor"
            /\ ret' = NoRef
       ELSE UNCHANGED waveVars
    /\ UNCHANGED <<wave, buffer, tampered, reencoded, chunkVars>>

\* encode() of the Wave decode returned
ReEncode ==
    /\ pc = "decoded" /\ decoded.ok
    /\ reencoded' = WaveEncode(Contents(chunks))
    /\ pc' = "reencoded"
    /\ lastOp' = "encode"
    /\ UNCHANGED <<wave, buffer, tampered, decoded, chunkVars,
                   chunks, cached_fmt, cached_data, ret>>

Next == Encode \/ Tamper \/ Decode \/ ReEncode

Spec == Init /\ [][Next]_vars

-----------------------------------------------------------------------------
(* The chunk scenario: chunk.pack(view) into a zero-filled buffer, the view  *)
(* of exactly chunk.length() bytes lying `lead` bytes into the buffer with   *)
(* `slack` bytes after it, then Class.unpack(view, tag) of the chunk's class *)

ViewLength == IF LengthThrows(chunk) THEN 0 ELSE ChunkLength(chunk)

\* Class.unpack for the class of chunk c
ClassUnpack(c, b, off, len) ==
    CASE c.kind = "UnknownChunk" -> UnknownUnpack(b, off, len, c.tag)
      [] c.kind = "FormatChunk" -> FormatUnpack(b, off, len, c.tag)
      [] c.kind = "CueChunk" -> CueChunkUnpack(b, off, len, c.tag)
      [] c.kind = "SampleChunk" -> SampleUnpack(b, off, len, c.tag)
      [] c.kind = "ListChunk_ADTL_LABL" -> LablUnpack(b, off, len, c.tag)
      [] c.kind = "ListChunk_ADTL" -> AdtlUnpack(b, off, len, c.tag)
      [] c.kind = "ListChunk" -> ListUnpack(b, off, len, c.tag)
      [] c.kind = "DataChunk" -> DataUnpack(b, off, len, c.tag)

ChunkInit ==
    /\ pc = "chunk"
    /\ chunk \in ChunkInputs
    /\ place \in Places
    /\ packed = NoBuffer
    /\ unpacked = UnpackThrows
    /\ buffer = NoBuffer
    /\ IdleCodec
    /\ IdleWave

Pack ==
    /\ pc = "chunk"
    /\ packed' = IF LengthThrows(chunk) THEN Throw(<<>>)
                 ELSE ChunkPack(chunk, Ok(Zeros(place.lead + ViewLength + place.slack)),
                                place.lead, ViewLength)
    /\ pc' = "packed"
    /\ UNCHANGED <<chunk, place, unpacked, buffer, codecVars, waveVars>>

Unpack ==
    /\ pc = "packed" /\ packed.ok
    /\ unpacked' = ClassUnpack(chunk, packed.buf, place.lead, ViewLength)
    /\ pc' = "unpacked"
    /\ UNCHANGED <<chunk, place, packed, buffer, codecVars, waveVars>>

ChunkNext == Pack \/ Unpack

ChunkSpec == ChunkInit /\ [][ChunkNext]_vars

-----------------------------------------------------------------------------
(* The Wave object scenario: one Wave, from its constructor on *)

\* new Wave(chunks): the constructor ends with this.updateCache()
WaveInit ==
    /\ pc = "wave"
    /\ \E cs \in SeqsUpTo(HeldChunks, 2) :
         /\ chunks = Objects(cs)
         /\ cached_fmt = GetChunk(chunks, FMT)
         /\ cached_data = GetChunk(chunks, DATA)
    /\ lastOp = "constructor"
    /\ ret = NoRef
    /\ buffer = NoBuffer
    /\ IdleCodec
    /\ IdleChunk

UpdateCache ==
    /\ cached_fmt' = GetChunk(chunks, FMT)
    /\ cached_data' = GetChunk(chunks, DATA)
    /\ lastOp' = "updateCache"
    /\ ret' = NoRef
    /\ UNCHANGED <<pc, chunks, buffer, codecVars, chunkVars>>

WaveEncodeOp ==
    /\ buffer' = WaveEncode(Contents(chunks))
    /\ lastOp' = "encode"
    /\ ret' = NoRef
    /\ UNCHANGED <<pc, chunks, cached_fmt, cached_data, codecVars, chunkVars>>

GetChunkOp ==
    \E tag \in {FMT, DATA, JUNK, CUE} :
        /\ ret' = GetChunk(chunks, tag)
        /\ lastOp' = "getChunk"
        /\ UNCHANGED <<pc, chunks, cached_fmt, cached_data, buffer, codecVars, chunkVars>>

RemoveChunk ==
    \E tag \in {FMT, DATA, JUNK, CUE} :
        /\ ret' = RemoveChunkResult(chunks, tag)
        /\ lastOp' = "removeChunk"
        /\ UNCHANGED <<pc, chunks, cached_fmt, cached_data, buffer, codecVars, chunkVars>>

\* AddChunk refreshing the cache after the push
AddChunk_Mutant ==
    /\ Len(chunks) < MaxHeld
    /\ \E c \in HeldChunks : chunks' = Append(chunks, Obj(Len(chunks) + 1, c))
    /\ cached_fmt' = GetChunk(chunks', FMT)
    /\ cached_data' = GetChunk(chunks', DATA)
    /\ lastOp' = "addChunk"
    /\ ret' = NoRef
    /\ UNCHANGED <<pc, buffer, codecVars, chunkVars>>

\* addChunk(chunk): a new chunk object is pushed
AddChunk ==
    /\ Len(chunks) < MaxHeld
    /\ \E c \in HeldChunks : chunks' = Append(chunks, Obj(Len(chunks) + 1, c))
    /\ lastOp' = "addChunk"
    /\ ret' = NoRef
    /\ UNCHANGED <<pc, cached_fmt, cached_data, buffer, codecVars, chunkVars>>

WaveNext == UpdateCache \/ WaveEncodeOp \/ GetChunkOp \/ RemoveChunk \/ AddChunk

WaveSpec == WaveInit /\ [][WaveNext]_vars

-----------------------------------------------------------------------------
(* Properties.  Their helpers restate what a claim expects from the bytes,  *)
(* without the operators of the model.                                      *)

\* v as n bytes, least significant first
LittleEndian(v, n) ==
    [i \in 1..n |-> (v \div (IF i = 1 THEN 1 ELSE IF i = 2 THEN 256
                            ELSE IF i = 3 THEN 65536 ELSE 16777216)) % 256]

RoundUpToEven(n) == n + (n % 2)

\* The u32 at offset 4 of a buffer of at least 8 bytes
DeclaredLength(b) == b[5] + 256 * b[6] + 65536 * b[7] + 16777216 * b[8]

BadRiffMagic(b) == Len(b) < 4 \/ SubSeq(b, 1, 4) # <<82, 73, 70, 70>>
BadWaveMagic(b) == Len(b) < 12 \/ SubSeq(b, 9, 12) # <<87, 65, 86, 69>>
LengthOverflows(b) == Len(b) >= 8 /\ DeclaredLength(b) + 8 > Len(b)

\* The number of chunk headers of b starting at p or later and before `end`,
\* each chunk followed by its pad byte when its body is of odd length
RECURSIVE HeadersFrom(_, _, _)
HeadersFrom(b, p, end) ==
    IF p >= end \/ p + 8 > Len(b) THEN 0
    ELSE 1 + HeadersFrom(b, RoundUpToEven(p + 8 + (b[p + 5] + 256 * b[p + 6]
                                                    + 65536 * b[p + 7] + 16777216 * b[p + 8])), end)

\* C1: decode(W.encode()) yields a chunk sequence of the same length and order
\* as W.chunks, every chunk with the same tag and the same field values.
C1_DecodeOfEncodeIsSame ==
    (pc = "decoded" /\ tampered = "none") => (decoded.ok /\ decoded.chunks = wave)

\* C2: for a buffer B returned by encode, decode(B).encode() returns a buffer
\* of the same size with the same byte at every offset.
C2_EncodeOfDecodeIsIdentical ==
    /\ (pc = "decoded" /\ tampered = "none") => decoded.ok
    /\ (pc = "reencoded" /\ tampered = "none") =>
           (reencoded.ok /\ reencoded.buf = buffer.buf)

\* C3: decode fails for a buffer whose bytes [0..4) are not "RIFF", whose bytes
\* [8..12) are not "WAVE", or whose declared length plus 8 exceeds the buffer's
\* length, and it fails before any chunk is decoded: no Wave, no chunk.
C3_DecodeRejectsBadHeader ==
    (pc = "decoded"
       /\ (BadRiffMagic(buffer.buf) \/ BadWaveMagic(buffer.buf) \/ LengthOverflows(buffer.buf)))
    => (~decoded.ok /\ decoded.unpacked = 0 /\ decoded.chunks = <<>>)

\* C3 witness: a buffer holding chunks, one byte short of its declared length,
\* was rejected by the length check
C3_Witness ==
    /\ pc = "decoded" /\ tampered = "cut" /\ Len(wave) >= 1
    /\ ~BadRiffMagic(buffer.buf) /\ ~BadWaveMagic(buffer.buf)
    /\ LengthOverflows(buffer.buf)
    /\ ~decoded.ok /\ decoded.error = "length"

\* C4: encode returns a buffer without throwing for every structurally valid
\* Wave, also when its last chunk is a LIST/adtl chunk ending in a label.
C4_EncodeNeverThrows ==
    (pc = "encoded" /\ tampered = "none") => buffer.ok

\* Whether c is an UnknownChunk, or a LIST / ADTL chunk holding only such
RECURSIVE OnlyUnknown(_)
OnlyUnknown(c) ==
    CASE c.kind = "UnknownChunk" -> TRUE
      [] c.kind = "ListChunk" -> OnlyUnknown(c.body)
      [] c.kind = "ListChunk_ADTL" -> \A i \in 1..Len(c.chunks) : OnlyUnknown(c.chunks[i])
      [] OTHER -> FALSE

\* C5: a chunk with an unregistered tag, at top level, as the body of a LIST
\* chunk or as an item of an ADTL chunk, is decoded as an UnknownChunk with that
\* tag and its bytes, and encoding the decoded Wave writes the same bytes at the
\* same offsets, for bodies of even and of odd length.
C5_UnknownChunksRoundTrip ==
    (tampered = "none" /\ \A i \in 1..Len(wave) : OnlyUnknown(wave[i])) =>
        /\ pc = "decoded" => (decoded.ok /\ decoded.chunks = wave)
        /\ pc = "reencoded" => (reencoded.ok /\ reencoded.buf = buffer.buf)

\* The 16 bytes of the six fixed fields of format chunk c
FixedFormatFields(c) ==
    LittleEndian(c.compressionCode, 2) \o LittleEndian(c.channelCount, 2)
    \o LittleEndian(c.sampleRate, 4) \o LittleEndian(c.avgBytesPerSecond, 4)
    \o LittleEndian(c.blockAlign, 2) \o LittleEndian(c.sigBitsPerSample, 2)

\* d is a format chunk with the six fixed fields of c
SameFixedFormatFields(c, d) ==
    /\ d.kind = "FormatChunk"
    /\ d.compressionCode = c.compressionCode /\ d.channelCount = c.channelCount
    /\ d.sampleRate = c.sampleRate /\ d.avgBytesPerSecond = c.avgBytesPerSecond
    /\ d.blockAlign = c.blockAlign /\ d.sigBitsPerSample = c.sigBitsPerSample

\* C6: FormatChunk.  With compressionCode <= 1, length() is 16, pack writes the
\* six fixed fields at offsets 0, 2, 4, 8, 12, 14 and nothing else, and unpack
\* yields no extension bytes, whether or not extension bytes were supplied.
\* With compressionCode > 1 and N extension bytes, length() is 18 + N, pack
\* also writes N as a u16 at offset 16 and the bytes at offset 18, and unpack
\* yields the same six fields and the same N bytes.
C6_FormatChunkLayout ==
    (chunk.kind = "FormatChunk") =>
      /\ chunk.compressionCode <= 1 =>
           /\ FormatLength(chunk) = 16
           /\ pc \in {"packed", "unpacked"} =>
                /\ packed.ok
                /\ packed.buf = Zeros(place.lead) \o FixedFormatFields(chunk)
                                  \o Zeros(place.slack)
           /\ pc = "unpacked" =>
                /\ unpacked.ok
                /\ SameFixedFormatFields(chunk, unpacked.chunk)
                /\ ~unpacked.chunk.extraFormatBytes.defined
      /\ (chunk.compressionCode > 1 /\ chunk.extraFormatBytes.defined) =>
           LET extra == chunk.extraFormatBytes.bytes IN
           /\ FormatLength(chunk) = 18 + Len(extra)
           /\ pc \in {"packed", "unpacked"} =>
                /\ packed.ok
                /\ packed.buf = Zeros(place.lead) \o FixedFormatFields(chunk)
                                  \o LittleEndian(Len(extra), 2) \o extra
                                  \o Zeros(place.slack)
           /\ pc = "unpacked" =>
                /\ unpacked.ok
                /\ SameFixedFormatFields(chunk, unpacked.chunk)
                /\ unpacked.chunk.extraFormatBytes.defined
                /\ unpacked.chunk.extraFormatBytes.bytes = extra

\* C6 witness: a compressed format chunk with two extension bytes was packed
\* into a view 4 bytes into its buffer and unpacked again
C6_Witness ==
    /\ pc = "unpacked" /\ unpacked.ok
    /\ chunk.kind = "FormatChunk" /\ chunk.compressionCode = 2
    /\ chunk.sampleRate = 44100
    /\ chunk.extraFormatBytes = Bytes(<<171, 205>>)
    /\ place.lead = 4

\* The number of bytes of the UTF-8 encoding of s
RECURSIVE Utf8ByteLength(_)
Utf8ByteLength(s) ==
    IF s = <<>> THEN 0
    ELSE (IF Head(s) < 128 THEN 1 ELSE IF Head(s) < 2048 THEN 2
          ELSE IF Head(s) < 65536 THEN 3 ELSE 4) + Utf8ByteLength(Tail(s))

\* C7: ListChunk_ADTL_LABL.  For a label without NUL, ASCII or multi-byte,
\* length() is 4 + (UTF-8 byte length) + 1 rounded up to even, and packing into
\* a zero-filled view of length() bytes then unpacking yields the same cueId
\* and label, a zero byte stored directly after the label's last byte.
C7_LablRoundTrip ==
    (chunk.kind = "ListChunk_ADTL_LABL") =>
      /\ LablLength(chunk) = RoundUpToEven(4 + Utf8ByteLength(chunk.cueLabel) + 1)
      /\ pc \in {"packed", "unpacked"} =>
           /\ packed.ok
           /\ 4 + Utf8ByteLength(chunk.cueLabel) < LablLength(chunk)
           /\ packed.buf[place.lead + 4 + Utf8ByteLength(chunk.cueLabel) + 1] = 0
      /\ pc = "unpacked" => (unpacked.ok /\ unpacked.chunk = chunk)

\* ref is the first object of this.chunks with tag `tag`, or undefined when
\* there is none
IsFirstWithTag(ref, tag) ==
    \/ /\ ref = NoRef
       /\ \A i \in 1..Len(chunks) : chunks[i].chunk.tag # tag
    \/ \E i \in 1..Len(chunks) :
          /\ chunks[i] = ref
          /\ ref.chunk.tag = tag
          /\ \A j \in 1..(i - 1) : chunks[j].chunk.tag # tag

\* C8: cached_fmt and cached_data change only in the constructor and in
\* updateCache; directly after either, cached_fmt is the first chunk with tag
\* "fmt " and cached_data the first with tag "data" (undefined when there is
\* none); every other method leaves both as they were.
C8_CacheChangesOnlyOnRefresh ==
    /\ [](lastOp \in {"constructor", "updateCache"} =>
            (IsFirstWithTag(cached_fmt, FMT) /\ IsFirstWithTag(cached_data, DATA)))
    /\ [][lastOp' \notin {"constructor", "updateCache"} =>
            (cached_fmt' = cached_fmt /\ cached_data' = cached_data)]_vars

\* C8 witness: after addChunk pushed a format chunk onto a Wave that had none,
\* the cache is stale: cached_fmt is still undefined
C8_Witness ==
    /\ lastOp = "addChunk"
    /\ cached_fmt = NoRef
    /\ \E i \in 1..Len(chunks) : chunks[i].chunk.tag = FMT
    /\ ~IsFirstWithTag(cached_fmt, FMT)

\* C9: ListChunk_ADTL.pack and unpack apply the same alignment rule, so unpack
\* over the packed bytes returns the same items in the same order, also after
\* an item of odd length.
C9_AdtlPackUnpackAgree ==
    (chunk.kind = "ListChunk_ADTL" /\ pc = "unpacked") =>
        (unpacked.ok /\ unpacked.chunk.chunks = chunk.chunks)

\* C10: decode's loop runs until the cursor reaches declaredLength + 8: every
\* chunk whose header starts before that offset is decoded and appended.
C10_DecodeLoopReachesEnd ==
    (pc = "decoded" /\ decoded.ok) =>
        /\ Len(decoded.chunks) = HeadersFrom(buffer.buf, 12, DeclaredLength(buffer.buf) + 8)
        /\ decoded.idx >= DeclaredLength(buffer.buf) + 8

====
